---- MODULE Spec2Model ----
(***************************************************************************)
(* The user routes of yfa (src/code/yfa/src/routes/users.js): nine express *)
(* handlers, each a synchronous part that issues a call to the User model  *)
(* and one or two callbacks that answer through res.json / res.problem.    *)
(* The User model (mongoose) is not part of the sources; its calls are     *)
(* modelled as an opaque store that invokes each callback once, with an    *)
(* error or with a result.                                                 *)
(***************************************************************************)
EXTENDS Integers, Sequences, FiniteSets

VARIABLES users, req, started

vars == <<users, req, started>>

(* ------------------------------ bounds --------------------------------- *)

\* Requests handed to the handlers in one behaviour.
MaxRequests == 2

\* Request slots: at most this many requests are in flight at once.
Reqs == {"r1", "r2"}

\* A new request takes the first free slot.
FirstFree(r) == r = "r1" \/ req["r1"].pc # "idle"

(* ---------------------------- JS values -------------------------------- *)

Undefined == [type |-> "undefined"]
Null == [type |-> "null"]
Str(s) == [type |-> "string", chars |-> s]
Num(n) == [type |-> "number", n |-> n]
Arr(s) == [type |-> "array", items |-> s]

\* ToBoolean, as `a || b` and `if (err)` apply it.
Truthy(v) ==
    CASE v.type = "undefined" -> FALSE
      [] v.type = "null" -> FALSE
      [] v.type = "string" -> Len(v.chars) > 0
      [] v.type = "number" -> v.n # 0
      [] OTHER -> TRUE

\* a || b
Or(a, b) == IF Truthy(a) THEN a ELSE b

\* ToString, as RegExp.prototype.test applies it to its argument: of a string,
\* of undefined, of null and of a plain object.
ToString(v) ==
    CASE v.type = "string" -> v.chars
      [] v.type = "undefined" -> <<"u", "n", "d", "e", "f", "i", "n", "e", "d">>
      [] v.type = "null" -> <<"n", "u", "l", "l">>
      [] OTHER -> <<"[", "o", "b", "j", "e", "c", "t", " ", "O", "b", "j", "e", "c", "t", "]">>

Lower == {"a", "b", "c", "d", "e", "f", "g", "h", "i", "j", "k", "l", "m",
          "n", "o", "p", "q", "r", "s", "t", "u", "v", "w", "x", "y", "z"}
Upper == {"A", "B", "C", "D", "E", "F", "G", "H", "I", "J", "K", "L", "M",
          "N", "O", "P", "Q", "R", "S", "T", "U", "V", "W", "X", "Y", "Z"}
Digit == {"0", "1", "2", "3", "4", "5", "6", "7", "8", "9"}

\* [a-zA-Z]
IsLetter(c) == c \in Lower \cup Upper
\* [a-zA-Z0-9_]
IsWordChar(c) == c \in Lower \cup Upper \cup Digit \cup {"_"}

\* The quantifier {4,15} of the username pattern.
MinTail == 4
MaxTail == 15

\* /^[a-zA-Z]{1}[a-zA-Z0-9_]{4,15}$/ on a sequence of characters.
MatchesPattern(s) ==
    /\ Len(s) >= 1
    /\ IsLetter(s[1])
    /\ Len(s) - 1 >= MinTail
    /\ Len(s) - 1 <= MaxTail
    /\ \A i \in 2..Len(s) : IsWordChar(s[i])

\* /.../.test(upd.username): the argument is converted to a string first.
UsernameTest(v) == MatchesPattern(ToString(v))

(* ------------------------------ inputs --------------------------------- *)

FbIds == {"fb1", "fb2"}
Mids == {"m1", "m2"}
Cids == {"c1"}

MidOf(f) == IF f = "fb1" THEN "m1" ELSE "m2"

\* "a" followed by n - 1 times "b".
Name(n) == [i \in 1..n |-> IF i = 1 THEN "a" ELSE "b"]

\* Lengths around the two ends of the pattern's range.
NameLens == {MinTail, MinTail + 1, MaxTail + 1, MaxTail + 2}

Usernames ==
    {Str(Name(n)) : n \in NameLens} \cup {Str(<<"7", "b", "c", "d", "e">>), Undefined}

\* The other fields of a body: one that replaces (firstName), two falsy ones
\* (lastName, email) and one left out (avatar).
Profiles ==
    {[firstName |-> Str(<<"X">>), lastName |-> Str(<<>>), email |-> Null,
      avatar |-> Undefined]}

Bodies ==
    {[username |-> u, firstName |-> p.firstName, lastName |-> p.lastName,
      email |-> p.email, avatar |-> p.avatar] : u \in Usernames, p \in Profiles}

NoBody == [username |-> Undefined, firstName |-> Undefined, lastName |-> Undefined,
           email |-> Undefined, avatar |-> Undefined]

\* req.query.skip, req.query.take
Pages == {<<0, 2>>, <<1, 1>>, <<2, 1>>}

(* ------------------------------ responses ------------------------------ *)

\* The http-status codes the handlers use.
HttpStatus ==
    [OK |-> 200, NO_CONTENT |-> 204, BAD_REQUEST |-> 400, METHOD_NOT_ALLOWED |-> 405,
     INTERNAL_SERVER_ERROR |-> 500]

\* An argument the handler does not pass.
NoText == "(none)"

\* res.problem(status, title, detail)
Problem(status, title, detail) ==
    [kind |-> "problem", status |-> status, title |-> title, detail |-> detail,
     body |-> Undefined]

\* res.json(status, body)
Json(status, body) ==
    [kind |-> "json", status |-> status, title |-> NoText, detail |-> NoText,
     body |-> body]

\* res.json(status)
JsonStatus(status) == Json(status, Undefined)

(* ------------------------------ the store ------------------------------ *)

States == [ONLINE |-> "online", OFFLINE |-> "offline"]

NewUser(f, name, done) ==
    [type |-> "object", id |-> MidOf(f), facebookId |-> f, username |-> name,
     registrationDone |-> done, firstName |-> Str(<<"F">>), lastName |-> Str(<<"L">>),
     email |-> Str(<<"e">>), state |-> States.OFFLINE, avatar |-> Str(<<"o">>),
     cohorts |-> {}]

Present == {f \in FbIds : users[f] # Null}

\* User.fb(facebookId, cb): the record with that external identity, or null.
StoreFb(f) == IF f \in FbIds THEN users[f] ELSE Null

\* The record of `store` with the id `mid`, or null.
LookupById(store, mid) ==
    IF \E f \in FbIds : store[f] # Null /\ store[f].id = mid
    THEN store[CHOOSE f \in FbIds : store[f] # Null /\ store[f].id = mid]
    ELSE Null

\* User.getById(mid, cb)
StoreGetById(mid) == LookupById(users, mid)

\* The present users in the order of their ids.
AllUsers ==
    LET order == <<"fb1", "fb2">>
    IN SelectSeq([i \in 1..Len(order) |-> users[order[i]]], LAMBDA u : u # Null)

Min(a, b) == IF a <= b THEN a ELSE b

\* User.publicList(skip, take, cb)
StorePublicList(skip, take) ==
    Arr(SubSeq(AllUsers, skip + 1, Min(Len(AllUsers), skip + take)))

\* User.count({}, cb)
StoreCount == Num(Cardinality(Present))

CohortSeq(S) == IF "c1" \in S THEN <<"c1">> ELSE <<>>

\* User.getCohortsById(mid, cb)
StoreGetCohortsById(mid) ==
    IF StoreGetById(mid) = Null THEN Null ELSE Arr(CohortSeq(StoreGetById(mid).cohorts))

\* user.save(cb): the profile fields of the handler's document are written to
\* the record, when the record still exists.
Saved(stored, doc) ==
    [stored EXCEPT !.username = doc.username,
                   !.registrationDone = doc.registrationDone,
                   !.firstName = doc.firstName, !.lastName = doc.lastName,
                   !.email = doc.email, !.state = doc.state, !.avatar = doc.avatar]

(* ------------------------------ requests ------------------------------- *)

Idle ==
    [pc |-> "idle", op |-> "none", fb |-> "none", mid |-> "none", cid |-> "none",
     body |-> NoBody, page |-> <<0, 0>>, loaded |-> Null, doc |-> Null,
     results |-> Null, got |-> <<>>, errs |-> {},
     resp |-> <<>>, log |-> <<>>]

\* A request enters a handler, which issues its first store call.
Begin(r, op, call, q) ==
    /\ req[r].pc = "idle"
    /\ FirstFree(r)
    /\ started < MaxRequests
    /\ started' = started + 1
    /\ req' = [req EXCEPT ![r] = [q EXCEPT !.pc = call, !.op = op, !.log = <<call>>]]
    /\ UNCHANGED users

\* The handler answers: the request is over.
Answered(q, response) ==
    [q EXCEPT !.pc = "done", !.resp = Append(@, response), !.log = Append(@, "respond")]

\* The handler issues a further store call.
Calls(q, call) == [q EXCEPT !.pc = call, !.log = Append(@, call)]

\* The store invokes the callback of the call in flight, with an error or with
\* a result: the request records what it was handed.
Heard(q, err, result) ==
    [q EXCEPT !.errs = IF err THEN @ \cup {q.pc} ELSE @, !.got = Append(@, result)]

\* results === null || results.length === 0
IsEmpty(results) ==
    \/ results = Null
    \/ results.type = "array" /\ Len(results.items) = 0

TypeOK ==
    /\ started \in 0..MaxRequests
    /\ \A f \in FbIds : users[f] = Null \/ users[f].facebookId = f

Init ==
    /\ users = [f \in FbIds |->
                   IF f = "fb1" THEN NewUser(f, Undefined, FALSE)
                   ELSE NewUser(f, Str(Name(MinTail + 2)), TRUE)]
    /\ req = [r \in Reqs |-> Idle]
    /\ started = 0

(* ------------------------------- create -------------------------------- *)

CreateResponse ==
    Problem(HttpStatus.METHOD_NOT_ALLOWED,
            "You're not allowed to create users on this system",
            "Users are created via 3rd party (Facebook) authentication")

\* exports.create: answers at once, no store call.
Create(r) ==
    /\ req[r].pc = "idle"
    /\ FirstFree(r)
    /\ started < MaxRequests
    /\ started' = started + 1
    /\ req' = [req EXCEPT ![r] = Answered([Idle EXCEPT !.op = "create"], CreateResponse)]
    /\ UNCHANGED users

(* -------------------------------- list --------------------------------- *)

\* exports.list: User.publicList(req.query.skip, req.query.take, cb)
List(r) ==
    \E p \in Pages : Begin(r, "list", "publicList", [Idle EXCEPT !.page = p])

\* Mutant: the no-content answer does not return, and count is called.
M_ListResultsFallsThrough(q, err, results) ==
    IF err
    THEN Answered(q, Problem(HttpStatus.INTERNAL_SERVER_ERROR, "Unexpected problem",
                             "Could not list users due to internal error"))
    ELSE IF IsEmpty(results)
    THEN Calls([Answered(q, JsonStatus(HttpStatus.NO_CONTENT)) EXCEPT !.results = results],
               "count")
    ELSE Calls([q EXCEPT !.results = results], "count")

\* The callback of User.publicList.
ListResults(q, err, results) ==
    IF err
    THEN Answered(q, Problem(HttpStatus.INTERNAL_SERVER_ERROR, "Unexpected problem",
                             "Could not list users due to internal error"))
    ELSE IF IsEmpty(results)
    THEN Answered(q, JsonStatus(HttpStatus.NO_CONTENT))
    ELSE Calls([q EXCEPT !.results = results], "count")

\* Mutant: meta.total is count, without the default.
M_CountResultsNoDefault(q, err, count) ==
    Answered(q, Json(HttpStatus.OK, [meta |-> [total |-> count], results |-> q.results]))

\* The callback of User.count: meta.total is count || 0.
CountResults(q, err, count) ==
    Answered(q, Json(HttpStatus.OK,
                     [meta |-> [total |-> Or(count, Num(0))], results |-> q.results]))

PublicListCallback(r) ==
    /\ req[r].pc = "publicList"
    /\ \E err \in BOOLEAN :
         LET results == IF err THEN Undefined
                        ELSE StorePublicList(req[r].page[1], req[r].page[2])
             q == Heard(req[r], err, results)
         IN req' = [req EXCEPT ![r] = ListResults(q, err, results)]
    /\ UNCHANGED <<users, started>>

CountCallback(r) ==
    /\ req[r].pc = "count"
    /\ \E err \in BOOLEAN :
         LET count == IF err THEN Undefined ELSE StoreCount
             q == Heard(req[r], err, count)
         IN req' = [req EXCEPT ![r] = CountResults(q, err, count)]
    /\ UNCHANGED <<users, started>>

(* ------------------------- getById and cohorts ------------------------- *)

\* exports.getById: User.getById(req.params.mid, cb)
GetById(r) ==
    \E m \in Mids : Begin(r, "getById", "getById", [Idle EXCEPT !.mid = m])

GetByIdResults(q, err, results) ==
    IF err
    THEN Answered(q, Problem(HttpStatus.INTERNAL_SERVER_ERROR, "Unexpected problem",
                             "Could not retrieve user due to internal error"))
    ELSE IF IsEmpty(results)
    THEN Answered(q, JsonStatus(HttpStatus.NO_CONTENT))
    ELSE Answered(q, Json(HttpStatus.OK, results))

GetByIdCallback(r) ==
    /\ req[r].pc = "getById"
    /\ \E err \in BOOLEAN :
         LET results == IF err THEN Undefined ELSE StoreGetById(req[r].mid)
             q == Heard(req[r], err, results)
         IN req' = [req EXCEPT ![r] = GetByIdResults(q, err, results)]
    /\ UNCHANGED <<users, started>>

\* exports.getCohortsById: User.getCohortsById(req.params.mid, cb)
GetCohortsById(r) ==
    \E m \in Mids : Begin(r, "getCohortsById", "getCohortsById", [Idle EXCEPT !.mid = m])

GetCohortsByIdResults(q, err, results) ==
    IF err
    THEN Answered(q, Problem(HttpStatus.INTERNAL_SERVER_ERROR, "Unexpected problem",
                             "Could not retrieve cohorts due to internal error"))
    ELSE IF IsEmpty(results)
    THEN Answered(q, JsonStatus(HttpStatus.NO_CONTENT))
    ELSE Answered(q, Json(HttpStatus.OK, results))

GetCohortsByIdCallback(r) ==
    /\ req[r].pc = "getCohortsById"
    /\ \E err \in BOOLEAN :
         LET results == IF err THEN Undefined ELSE StoreGetCohortsById(req[r].mid)
             q == Heard(req[r], err, results)
         IN req' = [req EXCEPT ![r] = GetCohortsByIdResults(q, err, results)]
    /\ UNCHANGED <<users, started>>

\* exports.addCohortForUser: User.addCohort(req.params.mid, req.params.id, cb)
AddCohortForUser(r) ==
    \E m \in Mids, c \in Cids :
        Begin(r, "addCohortForUser", "addCohort", [Idle EXCEPT !.mid = m, !.cid = c])

AddCohortResults(q, err, results) ==
    IF err
    THEN Answered(q, Problem(HttpStatus.INTERNAL_SERVER_ERROR, "Unexpected problem",
                             "Could not save cohort due to internal error"))
    ELSE IF IsEmpty(results)
    THEN Answered(q, JsonStatus(HttpStatus.NO_CONTENT))
    ELSE Answered(q, Json(HttpStatus.OK, results))

\* The store with the cohort `cid` added to, or removed from, the user `mid`.
WithCohort(mid, cid, adding) ==
    [g \in FbIds |->
        IF users[g] # Null /\ users[g].id = mid
        THEN [users[g] EXCEPT !.cohorts = IF adding THEN @ \cup {cid} ELSE @ \ {cid}]
        ELSE users[g]]

AddCohortCallback(r) ==
    /\ req[r].pc = "addCohort"
    /\ \E err \in BOOLEAN :
         LET store == IF err THEN users ELSE WithCohort(req[r].mid, req[r].cid, TRUE)
             results == IF err THEN Undefined ELSE LookupById(store, req[r].mid)
             q == Heard(req[r], err, results)
         IN /\ users' = store
            /\ req' = [req EXCEPT ![r] = AddCohortResults(q, err, results)]
    /\ UNCHANGED started

\* exports.removeCohortFromUser: User.removeCohort(req.params.mid, req.params.id, cb)
RemoveCohortFromUser(r) ==
    \E m \in Mids, c \in Cids :
        Begin(r, "removeCohortFromUser", "removeCohort",
              [Idle EXCEPT !.mid = m, !.cid = c])

RemoveCohortResults(q, err, results) ==
    IF err
    THEN Answered(q, Problem(HttpStatus.INTERNAL_SERVER_ERROR, "Unexpected problem",
                             "Could not remove cohort due to internal error"))
    ELSE IF IsEmpty(results)
    THEN Answered(q, JsonStatus(HttpStatus.NO_CONTENT))
    ELSE Answered(q, Json(HttpStatus.OK, results))

RemoveCohortCallback(r) ==
    /\ req[r].pc = "removeCohort"
    /\ \E err \in BOOLEAN :
         LET store == IF err THEN users ELSE WithCohort(req[r].mid, req[r].cid, FALSE)
             results == IF err THEN Undefined ELSE LookupById(store, req[r].mid)
             q == Heard(req[r], err, results)
         IN /\ users' = store
            /\ req' = [req EXCEPT ![r] = RemoveCohortResults(q, err, results)]
    /\ UNCHANGED started

(* ------------------------------- update -------------------------------- *)

\* Mutant: the record is resolved by the path id, req.params.mid.
M_PrincipalFromPath(q) == IF q.mid = "m1" THEN "fb1" ELSE "fb2"

\* req.user.facebookId: the identity the handler resolves the record by.
Principal(q) == q.fb

\* exports.update: upd = req.body; User.fb(req.user.facebookId, cb)
Update(r) ==
    \E f \in FbIds, m \in Mids, b \in Bodies :
        Begin(r, "update", "fb", [Idle EXCEPT !.fb = f, !.mid = m, !.body = b])

\* Mutant: the result of the format test is not negated.
M_UpdateRejectsInverted(user, upd) ==
    /\ ~user.registrationDone
    /\ UsernameTest(upd.username) = TRUE

\* Only new users can change their usernames: the format test applies to them.
UpdateRejects(user, upd) ==
    /\ ~user.registrationDone
    /\ UsernameTest(upd.username) = FALSE

\* Mutant: the username is assigned whether or not registration is done.
M_UpdateFieldsRenames(user, upd) ==
    [user EXCEPT !.username = upd.username,
                 !.registrationDone = TRUE,
                 !.firstName = Or(upd.firstName, @),
                 !.lastName = Or(upd.lastName, @),
                 !.email = Or(upd.email, @),
                 !.state = States.ONLINE,
                 !.avatar = upd.avatar]

\* Mutant: registrationDone is left as it was loaded.
M_UpdateFieldsKeepsFlag(user, upd) ==
    [user EXCEPT !.username = IF ~user.registrationDone THEN upd.username ELSE @,
                 !.firstName = Or(upd.firstName, @),
                 !.lastName = Or(upd.lastName, @),
                 !.email = Or(upd.email, @),
                 !.state = States.ONLINE,
                 !.avatar = upd.avatar]

\* The assignments to the loaded document.
UpdateFields(user, upd) ==
    [user EXCEPT !.username = IF ~user.registrationDone THEN upd.username ELSE @,
                 !.registrationDone = TRUE,
                 !.firstName = Or(upd.firstName, @),
                 !.lastName = Or(upd.lastName, @),
                 !.email = Or(upd.email, @),
                 !.state = States.ONLINE,
                 !.avatar = upd.avatar]

\* The callback of User.fb in update.
UpdateFound(q, err, user) ==
    IF err \/ user = Null
    THEN Answered(q, Problem(HttpStatus.BAD_REQUEST, "Could not save user information",
             "There was an error processing the request to save your information"))
    ELSE IF UpdateRejects(user, q.body)
    THEN Answered([q EXCEPT !.loaded = user, !.doc = user],
                  Problem(HttpStatus.BAD_REQUEST, "Invalid Username",
                          "User names must be 5-16 characters"))
    ELSE Calls([q EXCEPT !.loaded = user, !.doc = UpdateFields(user, q.body)], "save")

\* The callback of user.save: answers whatever the store reports.
SaveResults(q, err, user) == Answered(q, Json(HttpStatus.OK, user))

UpdateFbCallback(r) ==
    /\ req[r].pc = "fb"
    /\ req[r].op = "update"
    /\ \E err \in BOOLEAN :
         LET user == IF err THEN Undefined ELSE StoreFb(Principal(req[r]))
             q == Heard(req[r], err, user)
         IN req' = [req EXCEPT ![r] = UpdateFound(q, err, user)]
    /\ UNCHANGED <<users, started>>

SaveCallback(r) ==
    /\ req[r].pc = "save"
    /\ \E err \in BOOLEAN :
         LET f == req[r].doc.facebookId
             user == IF err THEN Undefined ELSE req[r].doc
             q == Heard(req[r], err, user)
         IN /\ users' = IF err \/ users[f] = Null THEN users
                        ELSE [users EXCEPT ![f] = Saved(@, req[r].doc)]
            /\ req' = [req EXCEPT ![r] = SaveResults(q, err, user)]
    /\ UNCHANGED started

(* ------------------------------- delete -------------------------------- *)

\* exports.delete: User.fb(req.user.facebookId, cb)
Delete(r) ==
    \E f \in FbIds, m \in Mids :
        Begin(r, "delete", "fb", [Idle EXCEPT !.fb = f, !.mid = m])

\* The callback of User.fb in delete.
DeleteFound(q, err, user) ==
    IF err \/ user = Null
    THEN Answered(q, Problem(HttpStatus.BAD_REQUEST, "Could not delete user",
             "There was an error processing the request to save your information"))
    ELSE Calls([q EXCEPT !.loaded = user, !.doc = user], "remove")

\* The callback of user.remove: answers whatever the store reports.
RemoveResults(q, err, result) == Answered(q, Json(HttpStatus.OK, result))

DeleteFbCallback(r) ==
    /\ req[r].pc = "fb"
    /\ req[r].op = "delete"
    /\ \E err \in BOOLEAN :
         LET user == IF err THEN Undefined ELSE StoreFb(Principal(req[r]))
             q == Heard(req[r], err, user)
         IN req' = [req EXCEPT ![r] = DeleteFound(q, err, user)]
    /\ UNCHANGED <<users, started>>

RemoveCallback(r) ==
    /\ req[r].pc = "remove"
    /\ \E err \in BOOLEAN :
         LET f == req[r].doc.facebookId
             result == IF err THEN Undefined ELSE req[r].doc
             q == Heard(req[r], err, result)
         IN /\ users' = IF err THEN users ELSE [users EXCEPT ![f] = Null]
            /\ req' = [req EXCEPT ![r] = RemoveResults(q, err, result)]
    /\ UNCHANGED started

(* ----------------------------- getMessages ----------------------------- *)

\* exports.getMessages: User.getMessages(req.params.mid, cb)
GetMessages(r) ==
    \E m \in Mids : Begin(r, "getMessages", "getMessages", [Idle EXCEPT !.mid = m])

\* What the store may hold in a document's messages field.
MessageFields == {Null, Undefined, Arr(<<>>), Arr(<<"hi">>)}

MessagesDoc(user, messages) ==
    [type |-> "object", id |-> user.id, messages |-> messages]

\* The documents User.getMessages may hand to its callback.
StoreGetMessages(mid) ==
    IF StoreGetById(mid) = Null THEN {Null}
    ELSE {MessagesDoc(StoreGetById(mid), m) : m \in MessageFields}

\* Mutant: a store error is answered as the other handlers answer it.
M_GetMessagesErrorAs500(q, err, doc) ==
    IF err
    THEN Answered(q, Problem(HttpStatus.INTERNAL_SERVER_ERROR, "Unexpected problem",
                             "Could not retrieve messages due to internal error"))
    ELSE IF doc = Null \/ doc.messages = Null
    THEN Answered(q, Problem(HttpStatus.NO_CONTENT, NoText, NoText))
    ELSE Answered(q, Json(HttpStatus.OK, doc))

\* The callback of User.getMessages.
GetMessagesResults(q, err, doc) ==
    IF err \/ doc = Null \/ doc.messages = Null
    THEN Answered(q, Problem(HttpStatus.NO_CONTENT, NoText, NoText))
    ELSE Answered(q, Json(HttpStatus.OK, doc))

GetMessagesCallback(r) ==
    /\ req[r].pc = "getMessages"
    /\ \E err \in BOOLEAN :
         \E doc \in (IF err THEN {Undefined} ELSE StoreGetMessages(req[r].mid)) :
             req' = [req EXCEPT ![r] = GetMessagesResults(Heard(req[r], err, doc), err, doc)]
    /\ UNCHANGED <<users, started>>

(* --------------------------- the state machine ------------------------- *)

\* The answered request leaves; its slot takes the next one.
Retire(r) ==
    /\ req[r].pc = "done"
    /\ req' = [req EXCEPT ![r] = Idle]
    /\ UNCHANGED <<users, started>>

\* A request enters one of the nine handlers.
Handle(r) ==
    \/ Create(r)
    \/ List(r)
    \/ GetById(r)
    \/ GetCohortsById(r)
    \/ AddCohortForUser(r)
    \/ RemoveCohortFromUser(r)
    \/ Update(r)
    \/ Delete(r)
    \/ GetMessages(r)

\* The store invokes the callback of the call in flight.
StoreCallback(r) ==
    \/ PublicListCallback(r)
    \/ CountCallback(r)
    \/ GetByIdCallback(r)
    \/ GetCohortsByIdCallback(r)
    \/ AddCohortCallback(r)
    \/ RemoveCohortCallback(r)
    \/ UpdateFbCallback(r)
    \/ SaveCallback(r)
    \/ DeleteFbCallback(r)
    \/ RemoveCallback(r)
    \/ GetMessagesCallback(r)

Next == \E r \in Reqs : Handle(r) \/ StoreCallback(r) \/ Retire(r)

Spec == Init /\ [][Next]_vars

\* Each store call invokes its callback.
FairSpec == Spec /\ \A r \in Reqs : WF_vars(StoreCallback(r))

(* ------------------------------ the claims ----------------------------- *)

\* The events of a request's log, as a set.
Events(q) == {q.log[i] : i \in 1..Len(q.log)}

\* An update whose callback found the principal's record.
UpdateLoaded(q) == q.op = "update" /\ q.loaded # Null

InvalidUsername ==
    Problem(HttpStatus.BAD_REQUEST, "Invalid Username", "User names must be 5-16 characters")

\* The format rule on a stored username: a string that matches the pattern.
SatisfiesRule(v) == v.type = "string" /\ MatchesPattern(v.chars)

\* C1: an update that finds a user with registrationDone = true is never
\* answered "Invalid Username", whatever username the body carries, and the
\* document it hands to save has the username it was loaded with.
C1_RegisteredKeepsUsername ==
    \A r \in Reqs :
        LET q == req[r]
        IN (UpdateLoaded(q) /\ q.loaded.registrationDone) =>
              /\ "save" \in Events(q)
              /\ q.doc.username = q.loaded.username
              /\ \A i \in 1..Len(q.resp) : q.resp[i] # InvalidUsername

\* A registered user's update, with an ill-formed username in the body, was
\* saved and answered 200.
C1_Witness ==
    \E r \in Reqs :
        LET q == req[r]
        IN /\ UpdateLoaded(q) /\ q.loaded.registrationDone
           /\ q.pc = "done"
           /\ UsernameTest(q.body.username) = FALSE
           /\ q.resp = <<Json(HttpStatus.OK, q.doc)>>
           /\ users[q.fb] # Null /\ users[q.fb].username = q.loaded.username

C3_SavedUsernameSatisfiesRule ==
    \A r \in Reqs :
        LET q == req[r]
        IN (UpdateLoaded(q) /\ ~q.loaded.registrationDone) =>
              \/ q.resp = <<InvalidUsername>>
              \/ SatisfiesRule(q.doc.username)

\* The document an update hands to save is registered and ONLINE.
C4_SavedIsRegisteredOnline ==
    \A r \in Reqs :
        LET q == req[r]
        IN (q.op = "update" /\ "save" \in Events(q)) =>
              /\ q.doc.registrationDone = TRUE
              /\ q.doc.state = States.ONLINE

\* A step keeps a stored registrationDone = true.
C4_RegistrationSticks ==
    \A f \in FbIds :
        (users[f] # Null /\ users[f].registrationDone /\ users'[f] # Null)
            => users'[f].registrationDone

\* C4: every document an update hands to save has registrationDone = true and
\* state = ONLINE, whatever the record and the body were, and no step of any
\* handler takes a stored registrationDone from true back to false.
C4_RegistrationDoneOneWay ==
    [](C4_SavedIsRegisteredOnline) /\ [][C4_RegistrationSticks]_vars

\* A new user's update was saved: the stored record went from not registered
\* and OFFLINE to registered and ONLINE.
C4_Witness ==
    \E r \in Reqs :
        LET q == req[r]
        IN /\ UpdateLoaded(q) /\ ~q.loaded.registrationDone
           /\ q.loaded.state = States.OFFLINE
           /\ q.pc = "done" /\ q.errs = {}
           /\ users[q.fb] # Null
           /\ users[q.fb].registrationDone /\ users[q.fb].state = States.ONLINE

\* The profile of a stored record: all of it but the cohorts, which the
\* cohort routes change by a path id.
ProfileOf(u) == IF u = Null THEN Null ELSE [u EXCEPT !.cohorts = {}]

\* An update or a delete.
Scoped(q) == q.op \in {"update", "delete"}

\* The record an update or a delete works on is the principal's.
C5_ResolvedByPrincipal ==
    \A r \in Reqs :
        LET q == req[r]
        IN (Scoped(q) /\ q.loaded # Null) =>
              /\ q.loaded.facebookId = q.fb
              /\ q.doc.facebookId = q.fb

\* A step that changes or removes a profile is the save or remove callback of
\* a request of that very principal.
C5_OnlyOwnRecordChanges ==
    \A f \in FbIds :
        ProfileOf(users'[f]) # ProfileOf(users[f]) =>
            \E r \in Reqs :
                /\ Scoped(req[r])
                /\ req[r].pc \in {"save", "remove"}
                /\ req'[r].pc = "done"
                /\ req[r].fb = f

\* C5: update and delete pick the record they change from the principal's
\* external identity alone: whatever id the client supplies, the record
\* loaded, saved or removed is the principal's, and no step changes the
\* profile of a user with another identity.
C5_ScopedToPrincipal ==
    [](C5_ResolvedByPrincipal) /\ [][C5_OnlyOwnRecordChanges]_vars

\* Two answered requests of one principal, an update and a delete, whose path
\* ids differ, one of them naming the other user: both worked on the
\* principal's record and the other user's record is as it was.
C5_Witness ==
    \E r1, r2 \in Reqs :
        /\ req[r1].op = "update" /\ req[r2].op = "delete"
        /\ req[r1].fb = "fb1" /\ req[r2].fb = "fb1"
        /\ req[r1].mid # req[r2].mid
        /\ req[r1].pc = "done" /\ req[r2].pc = "done"
        /\ req[r1].errs = {} /\ req[r2].errs = {}
        /\ "save" \in Events(req[r1]) /\ "remove" \in Events(req[r2])
        /\ users["fb1"] = Null
        /\ users["fb2"] = NewUser("fb2", Str(Name(MinTail + 2)), TRUE)

\* C6: whenever the store reports an error to a call of a request, the
\* request ends with a problem response that carries a failure status, a
\* title and a detail, never with a success response.
C6_StoreErrorIsProblem ==
    \A r \in Reqs :
        LET q == req[r]
        IN (q.pc = "done" /\ q.errs # {}) =>
              /\ Len(q.resp) = 1
              /\ q.resp[1].kind = "problem"
              /\ q.resp[1].status \in
                     {HttpStatus.BAD_REQUEST, HttpStatus.INTERNAL_SERVER_ERROR}
              /\ q.resp[1].title # NoText
              /\ q.resp[1].detail # NoText

\* What the store handed to the callbacks of a list request.
Listed(q) == q.got[1]
Counted(q) == q.got[2]

\* C7: list calls count only after publicList returned a non-empty list
\* without error, and then answers 200 with that list as results and with
\* meta.total the number count reported, or 0 when count reported none; it
\* answers 500 when publicList fails and no-content when the list is null or
\* empty, both without calling count.
C7_ListThenCount ==
    \A r \in Reqs :
        LET q == req[r]
        IN q.op = "list" =>
              /\ "count" \in Events(q) =>
                    /\ "publicList" \notin q.errs
                    /\ Listed(q).type = "array" /\ Len(Listed(q).items) > 0
                    /\ SubSeq(q.log, 1, 2) = <<"publicList", "count">>
              /\ (q.pc = "done" /\ "publicList" \in q.errs) =>
                    /\ q.log = <<"publicList", "respond">>
                    /\ q.resp = <<Problem(HttpStatus.INTERNAL_SERVER_ERROR,
                                          "Unexpected problem",
                                          "Could not list users due to internal error")>>
              /\ (q.pc = "done" /\ "publicList" \notin q.errs /\ IsEmpty(Listed(q))) =>
                    /\ q.log = <<"publicList", "respond">>
                    /\ q.resp = <<JsonStatus(HttpStatus.NO_CONTENT)>>
              /\ (q.pc = "done" /\ "count" \in Events(q)) =>
                    /\ q.log = <<"publicList", "count", "respond">>
                    /\ q.resp =
                         <<Json(HttpStatus.OK,
                                [meta |-> [total |->
                                     IF "count" \in q.errs \/ Counted(q) = Undefined
                                         \/ Counted(q) = Num(0)
                                     THEN Num(0) ELSE Counted(q)],
                                 results |-> Listed(q)])>>

\* A list whose count call failed was answered 200 with total 0.
C7_Witness ==
    \E r \in Reqs :
        LET q == req[r]
        IN /\ q.op = "list" /\ q.pc = "done"
           /\ q.errs = {"count"}
           /\ q.resp[1].status = HttpStatus.OK
           /\ q.resp[1].body.meta.total = Num(0)
           /\ Len(q.resp[1].body.results.items) = 2

\* The answer of getMessages when there is nothing to hand out.
NoContent == Problem(HttpStatus.NO_CONTENT, NoText, NoText)

\* The three cases getMessages folds together.
MessagesCase(q) ==
    IF "getMessages" \in q.errs THEN "error"
    ELSE IF q.got[1] = Null THEN "null document"
    ELSE IF q.got[1].messages = Null THEN "null messages"
    ELSE "document"

\* C8: getMessages answers no-content, with no title and no detail, when the
\* store reports an error, when the document is null and when the document's
\* messages field is null, with one and the same response in the three
\* cases; in every other case it answers 200 with the whole document.
C8_MessagesOrNoContent ==
    \A r \in Reqs :
        LET q == req[r]
        IN (q.op = "getMessages" /\ q.pc = "done") =>
              IF MessagesCase(q) = "document"
              THEN q.resp = <<Json(HttpStatus.OK, q.got[1])>>
              ELSE /\ q.resp = <<NoContent>>
                   /\ q.resp[1].status = HttpStatus.NO_CONTENT
                   /\ q.resp[1].title = NoText /\ q.resp[1].detail = NoText
                   /\ q.resp[1].body = Undefined

\* Two answered getMessages requests, one whose store call failed and one
\* whose document had null messages, with equal responses.
C8_Witness ==
    \E r1, r2 \in Reqs :
        /\ req[r1].op = "getMessages" /\ req[r2].op = "getMessages"
        /\ req[r1].pc = "done" /\ req[r2].pc = "done"
        /\ MessagesCase(req[r1]) = "error"
        /\ MessagesCase(req[r2]) = "null messages"
        /\ req[r1].resp = req[r2].resp

\* C9: under any interleaving of the store calls of concurrent updates of one
\* principal, once the stored record has registrationDone = true its stored
\* username never changes again.
C9_UsernameFrozenOnceRegistered ==
    [][\A f \in FbIds :
          (users[f] # Null /\ users[f].registrationDone /\ users'[f] # Null)
              => users'[f].username = users[f].username]_vars

\* The responses and the store calls of a request, counted in its log.
Count(q, e) == Cardinality({i \in 1..Len(q.log) : q.log[i] = e})

InFlight(q) == q.pc \notin {"idle", "done"}

\* A request answers at most once, an answered request answered exactly once
\* and made no store call after its response.
C10_AnswersOnce ==
    \A r \in Reqs :
        LET q == req[r]
        IN /\ Len(q.resp) = Count(q, "respond")
           /\ Len(q.resp) <= 1
           /\ InFlight(q) => Len(q.resp) = 0
           /\ q.pc = "done" => Len(q.resp) = 1 /\ q.log[Len(q.log)] = "respond"
           /\ q.pc # "idle" => Len(q.got) = Len(q.log) - 1

\* C10: every request to any of the nine handlers, each store call invoking
\* its callback, eventually emits exactly one response, and makes no store
\* call after it.
C10_ExactlyOneResponse ==
    /\ [](C10_AnswersOnce)
    /\ \A r \in Reqs : InFlight(req[r]) ~> (req[r].pc = "done" /\ Len(req[r].resp) = 1)

\* A list request that made both its store calls and then answered, once.
C10_Witness ==
    \E r \in Reqs :
        /\ req[r].log = <<"publicList", "count", "respond">>
        /\ Len(req[r].resp) = 1
        /\ req[r].pc = "done"

====
